---- MODULE Spec2Model ----
(***************************************************************************)
(* GIRI landslide hazard tool: HazardProcessor (batch runner over the      *)
(* susceptibility tiles of the Data folder, sequential or one process per  *)
(* tile behind a semaphore) and CalcHazard (rain-hazard classification and *)
(* the susceptibility x rain hazard matrix).                               *)
(*                                                                         *)
(* A file name is a sequence of tokens, <<"A", "_sus", ".tif">> being      *)
(* "A_sus.tif"; the first token is what precedes the first underscore and  *)
(* a token starting with a dot is an extension.                            *)
(* A raster cell is a record [k, v]: k = "fin" with the number v, or       *)
(* k = "nan", "pinf", "ninf" for IEEE not-a-number and the infinities.     *)
(* Every finite number is held in tenths, so that 3.2 is v = 32 and the    *)
(* class 4 is v = 40: Dec(t) is t tenths and Num(n) the whole number n.    *)
(***************************************************************************)
EXTENDS Integers, Sequences, FiniteSets, TLC

VARIABLES
    dir,                     \* names of the files in the Data folder
    corrupt,                 \* files of dir that cannot be read as a raster
    MAX_NUMBER_OF_PROCESSES, \* kwargs['MAX_NUMBER_OF_PROCESSES']
    MULTIPROCESSING,         \* kwargs['MULTIPROCESSING'] of the current run
    pc,                      \* position of the runner
    files,                   \* list(self.path_data.glob(...))
    idx,                     \* number of loop iterations completed
    sema,                    \* value of the Semaphore
    processes,               \* the list `processes`, one record per Process
    dispatched,              \* files CompGiriHazard was called on in this run
    discovered,              \* per value of MULTIPROCESSING: the files its run globbed
    results,                 \* per value of MULTIPROCESSING: the rasters its run wrote
    outcome,                 \* per value of MULTIPROCESSING: how its run ended
    susc_da,                 \* susceptibility raster of one tile
    I24norm,                 \* normalized rainfall raster of that tile
    RainHazard_aux,          \* rain hazard raster
    hazard_aux,              \* hazard raster
    step                     \* position inside the tile computation

batchVars == <<dir, corrupt, MAX_NUMBER_OF_PROCESSES, MULTIPROCESSING, pc, files,
               idx, sema, processes, dispatched, discovered, results, outcome>>
tileVars == <<susc_da, I24norm, RainHazard_aux, hazard_aux, step>>
vars == <<batchVars, tileVars>>

\* ------------------------------------------------------------------ bounds
MaxTiles == 2      \* tile prefixes that may be present in the Data folder
MaxSlots == 2      \* largest MAX_NUMBER_OF_PROCESSES tried
MaxNorm == 40      \* largest finite normalized rainfall tried, in tenths

\* ------------------------------------------------------------- file names
TileIds == <<"N00E006", "N00E007", "N00E008", "N00E009">>
Prefixes == {TileIds[i] : i \in 1..MaxTiles}
TileNames == {<<p, "_sus", ".tif">> : p \in Prefixes} \cup {<<p, "_sus">> : p \in Prefixes}
\* files the constructor and OpenRainNorm need next to the tiles
FixedNames == {<<"input", "_variables", ".xlsx">>, <<"StdMaxDayRain", ".txt">>}

EndsWith(name, pat) ==
    /\ Len(name) >= Len(pat)
    /\ \A i \in 1..Len(pat) : name[Len(name) - Len(pat) + i] = pat[i]

\* Path.glob('*' + pat): the names of the folder that end with pat
Glob(pat) == {n \in dir : EndsWith(n, pat)}

IsExt(tok) == tok \in {".tif", ".txt", ".xlsx"}

\* Path(file).stem: the name without its last extension
Stem(name) == IF IsExt(name[Len(name)]) THEN SubSeq(name, 1, Len(name) - 1) ELSE name

\* file_name1.split('_')[0]
PrefixOf(name) == Stem(name)[1]

\* the two rasters ComputeRainHazard and ComputeHazard save for a tile; `from`
\* stands for their content, a function of the tile that was read
OutputsOf(name) ==
    {[file |-> <<PrefixOf(name), "_RainHazard", ".tif">>, from |-> name],
     [file |-> <<PrefixOf(name), "_Hazard", ".tif">>, from |-> name]}

\* the orders in which glob may list a set of files
Orders(S) == {s \in [1..Cardinality(S) -> S] : \A i, j \in DOMAIN s : s[i] = s[j] => i = j}

\* ------------------------------------------------------------ raster cells
Dec(t) == [k |-> "fin", v |-> t]
Num(n) == Dec(10 * n)
NaN == [k |-> "nan", v |-> 0]
PInf == [k |-> "pinf", v |-> 0]
NInf == [k |-> "ninf", v |-> 0]

\* ====================================================================
\* HazardProcessor: the batch runner
\* ====================================================================
Modes == BOOLEAN
Terminated(p) == p.status \in {"exited", "failed"}
Alive(p) == ~Terminated(p)
AliveWorkers == {k \in DOMAIN processes : Alive(processes[k])}

\* state of the tile computation while the batch runner is the subject
TileIdle ==
    /\ susc_da = <<>>
    /\ I24norm = <<>>
    /\ RainHazard_aux = <<>>
    /\ hazard_aux = <<>>
    /\ step = "idle"

\* HazardProcessor.__init__ up to "Run script": any Data folder, any kwargs
InitBatch ==
    /\ \E tiles \in SUBSET TileNames :
         /\ dir = FixedNames \cup tiles
         /\ corrupt \in SUBSET tiles
    /\ MAX_NUMBER_OF_PROCESSES \in 1..MaxSlots
    /\ MULTIPROCESSING \in Modes
    /\ pc = "init"
    /\ files = <<>>
    /\ idx = 0
    /\ sema = 0
    /\ processes = <<>>
    /\ dispatched = {}
    /\ discovered = [m \in Modes |-> {}]
    /\ results = [m \in Modes |-> {}]
    /\ outcome = [m \in Modes |-> "none"]
    /\ TileIdle


\* multi_process_rasters, lines 73-76: glob, processes = [], Semaphore(MAX)
EnterMulti ==
    /\ pc = "init"
    /\ MULTIPROCESSING
    /\ files' \in Orders(Glob(<<"_sus">>))
    /\ discovered' = [discovered EXCEPT ![TRUE] = Glob(<<"_sus">>)]
    /\ processes' = <<>>
    /\ sema' = MAX_NUMBER_OF_PROCESSES
    /\ idx' = 0
    /\ pc' = IF Len(files') = 0 THEN "done" ELSE "acquire"
    /\ outcome' = IF Len(files') = 0 THEN [outcome EXCEPT ![TRUE] = "done"] ELSE outcome
    /\ UNCHANGED <<dir, corrupt, MAX_NUMBER_OF_PROCESSES, MULTIPROCESSING, dispatched, results>>
    /\ UNCHANGED tileVars

\* sema.acquire(): blocks while the semaphore is empty
AcquireNoBlock ==
    /\ pc = "acquire"
    /\ sema' = sema - 1
    /\ pc' = "start"
    /\ UNCHANGED <<dir, corrupt, MAX_NUMBER_OF_PROCESSES, MULTIPROCESSING, files, idx,
                   processes, dispatched, discovered, results, outcome>>
    /\ UNCHANGED tileVars

Acquire ==
    /\ pc = "acquire"
    /\ sema > 0
    /\ sema' = sema - 1
    /\ pc' = "start"
    /\ UNCHANGED <<dir, corrupt, MAX_NUMBER_OF_PROCESSES, MULTIPROCESSING, files, idx,
                   processes, dispatched, discovered, results, outcome>>
    /\ UNCHANGED tileVars

\* p = Process(target=self.CompGiriHazard, ...); p.start(); processes.append(p)
Start ==
    /\ pc = "start"
    /\ processes' = Append(processes, [file |-> files[idx + 1], status |-> "started", releases |-> 0])
    /\ dispatched' = dispatched \cup {files[idx + 1]}
    /\ pc' = "join"
    /\ UNCHANGED <<dir, corrupt, MAX_NUMBER_OF_PROCESSES, MULTIPROCESSING, files, idx,
                   sema, discovered, results, outcome>>
    /\ UNCHANGED tileVars

\* the position after the join loop of one iteration of `for file_susc in files`
JoinDone ==
    /\ idx' = idx + 1
    /\ pc' = IF idx + 1 = Len(files) THEN "done" ELSE "acquire"
    /\ outcome' = IF idx + 1 = Len(files) THEN [outcome EXCEPT ![TRUE] = "done"] ELSE outcome
    /\ UNCHANGED <<dir, corrupt, MAX_NUMBER_OF_PROCESSES, MULTIPROCESSING, files,
                   sema, processes, dispatched, discovered, results>>
    /\ UNCHANGED tileVars

JoinNoWait ==
    /\ pc = "join"
    /\ JoinDone

\* for p in processes: p.join()  -- inside the loop over the files
Join ==
    /\ pc = "join"
    /\ \A k \in DOMAIN processes : Terminated(processes[k])
    /\ JoinDone

WorkerVarsUnchanged ==
    /\ UNCHANGED <<dir, corrupt, MAX_NUMBER_OF_PROCESSES, MULTIPROCESSING, pc, files, idx,
                   dispatched, discovered, outcome>>
    /\ UNCHANGED tileVars

\* CompGiriHazard in a child process: a step raises (the tile cannot be read);
\* the process ends with the exception, sema.release() is not reached
WorkerFail(k) ==
    /\ processes[k].status = "started"
    /\ processes[k].file \in corrupt
    /\ processes' = [processes EXCEPT ![k].status = "failed"]
    /\ UNCHANGED <<sema, results>>
    /\ WorkerVarsUnchanged

\* CompGiriHazard in a child process, lines 330-352: both rasters are saved
WorkerCompute(k) ==
    /\ processes[k].status = "started"
    /\ processes[k].file \notin corrupt
    /\ processes' = [processes EXCEPT ![k].status = "computed"]
    /\ results' = [results EXCEPT ![TRUE] = @ \cup OutputsOf(processes[k].file)]
    /\ UNCHANGED sema
    /\ WorkerVarsUnchanged

\* if sema is not None: sema.release()
WorkerRelease(k) ==
    /\ processes[k].status = "computed"
    /\ sema' = sema + 1
    /\ processes' = [processes EXCEPT ![k].status = "released", ![k].releases = @ + 1]
    /\ UNCHANGED results
    /\ WorkerVarsUnchanged

\* the child process ends after CompGiriHazard returned
WorkerExit(k) ==
    /\ processes[k].status = "released"
    /\ processes' = [processes EXCEPT ![k].status = "exited"]
    /\ UNCHANGED <<sema, results>>
    /\ WorkerVarsUnchanged

Worker ==
    \E k \in DOMAIN processes :
        \/ WorkerFail(k)
        \/ WorkerCompute(k)
        \/ WorkerRelease(k)
        \/ WorkerExit(k)

\* process_rasters, line 99
EnterSeq ==
    /\ pc = "init"
    /\ ~MULTIPROCESSING
    /\ files' \in Orders(Glob(<<"_sus", ".tif">>))
    /\ discovered' = [discovered EXCEPT ![FALSE] = Glob(<<"_sus", ".tif">>)]
    /\ idx' = 0
    /\ pc' = IF Len(files') = 0 THEN "done" ELSE "loop"
    /\ outcome' = IF Len(files') = 0 THEN [outcome EXCEPT ![FALSE] = "done"] ELSE outcome
    /\ UNCHANGED <<dir, corrupt, MAX_NUMBER_OF_PROCESSES, MULTIPROCESSING, sema,
                   processes, dispatched, results>>
    /\ UNCHANGED tileVars

\* process_rasters, lines 101-105: CompGiriHazard is called in the runner itself;
\* an exception it raises leaves the loop, process_rasters and the constructor
SeqCall ==
    /\ pc = "loop"
    /\ LET f == files[idx + 1] IN
        /\ dispatched' = dispatched \cup {f}
        /\ IF f \in corrupt
           THEN /\ pc' = "crashed"
                /\ outcome' = [outcome EXCEPT ![FALSE] = "crashed"]
                /\ UNCHANGED <<idx, results>>
           ELSE /\ results' = [results EXCEPT ![FALSE] = @ \cup OutputsOf(f)]
                /\ idx' = idx + 1
                /\ pc' = IF idx + 1 = Len(files) THEN "done" ELSE "loop"
                /\ outcome' = IF idx + 1 = Len(files)
                              THEN [outcome EXCEPT ![FALSE] = "done"] ELSE outcome
    /\ UNCHANGED <<dir, corrupt, MAX_NUMBER_OF_PROCESSES, MULTIPROCESSING, files, sema,
                   processes, discovered>>
    /\ UNCHANGED tileVars

\* the program is run again on the same Data folder with the other value of
\* kwargs['MULTIPROCESSING']
Rerun ==
    /\ pc \in {"done", "crashed"}
    /\ outcome[~MULTIPROCESSING] = "none"
    /\ MULTIPROCESSING' = ~MULTIPROCESSING
    /\ pc' = "init"
    /\ files' = <<>>
    /\ idx' = 0
    /\ sema' = 0
    /\ processes' = <<>>
    /\ dispatched' = {}
    /\ UNCHANGED <<dir, corrupt, MAX_NUMBER_OF_PROCESSES, discovered, results, outcome>>
    /\ UNCHANGED tileVars

Next ==
    \/ EnterMulti
    \/ Acquire
    \/ Start
    \/ Join
    \/ \E k \in DOMAIN processes : WorkerFail(k)
    \/ \E k \in DOMAIN processes : WorkerCompute(k)
    \/ \E k \in DOMAIN processes : WorkerRelease(k)
    \/ \E k \in DOMAIN processes : WorkerExit(k)
    \/ EnterSeq
    \/ SeqCall
    \/ Rerun

Spec == InitBatch /\ [][Next]_vars

\* Every child process is scheduled by the operating system and the runner is
\* never suspended for ever: each enabled step is eventually taken.
SpecFair ==
    /\ Spec
    /\ WF_vars(EnterMulti)
    /\ WF_vars(Acquire)
    /\ WF_vars(Start)
    /\ WF_vars(Join)
    /\ WF_vars(Worker)
    /\ WF_vars(EnterSeq)
    /\ WF_vars(SeqCall)
    /\ WF_vars(Rerun)
\* ====================================================================
\* CalcHazard: the computation on the rasters of one tile
\* ====================================================================
\* IEEE comparisons: every comparison with not-a-number is false
Le(a, b) ==
    /\ a.k # "nan"
    /\ b.k # "nan"
    /\ \/ a.k = "ninf"
       \/ b.k = "pinf"
       \/ a.k = "fin" /\ b.k = "fin" /\ a.v <= b.v
Gt(a, b) == a.k # "nan" /\ b.k # "nan" /\ ~Le(a, b)
Eq(a, b) == a.k # "nan" /\ b.k # "nan" /\ a = b
IsNan(a) == a.k = "nan"
IsFinite(a) == a.k = "fin"

\* the boolean arrays of the masks: arr <= b, arr > b, arr == b, np.isnan(arr), m & n
LeMask(arr, b) == [r \in DOMAIN arr |-> [c \in DOMAIN arr[r] |-> Le(arr[r][c], b)]]
GtMask(arr, b) == [r \in DOMAIN arr |-> [c \in DOMAIN arr[r] |-> Gt(arr[r][c], b)]]
EqMask(arr, b) == [r \in DOMAIN arr |-> [c \in DOMAIN arr[r] |-> Eq(arr[r][c], b)]]
NanMask(arr) == [r \in DOMAIN arr |-> [c \in DOMAIN arr[r] |-> IsNan(arr[r][c])]]
AndMask(m, n) == [r \in DOMAIN m |-> [c \in DOMAIN m[r] |-> m[r][c] /\ n[r][c]]]

\* np.where(mask, val, arr)
Where(mask, val, arr) ==
    [r \in DOMAIN arr |-> [c \in DOMAIN arr[r] |-> IF mask[r][c] THEN val ELSE arr[r][c]]]

\* np.zeros_like(arr)
ZerosLike(arr) == [r \in DOMAIN arr |-> [c \in DOMAIN arr[r] |-> Num(0)]]

\* KWARGS["I_lim"]
I_lim == <<Dec(7), Dec(20), Dec(37), Dec(50)>>

\* the body of `for ii in range(len(I_lim))`, classifying by the limits' values
RainHazardByValue(ii, aux, acc) ==
    LET low == LeMask(aux, I_lim[ii + 1])
        mid == AndMask(LeMask(aux, I_lim[ii + 1]), GtMask(aux, I_lim[ii]))
        top == GtMask(aux, I_lim[ii + 1])
    IN  IF ii = 0 THEN Where(low, Num(ii + 1), acc)
        ELSE IF ii < 3 THEN Where(mid, Num(ii + 1), acc)
        ELSE Where(top, Num(ii + 2), Where(mid, Num(ii + 1), acc))

\* the body of `for ii in range(len(I_lim))`: the masks compare with the index ii
RainHazardIteration(ii, aux, acc) ==
    LET low == LeMask(aux, Num(ii))
        mid == AndMask(LeMask(aux, Num(ii)), GtMask(aux, Num(ii - 1)))
        top == GtMask(aux, Num(ii))
    IN  IF ii = 0 THEN Where(low, Num(ii + 1), acc)
        ELSE IF ii < 3 THEN Where(mid, Num(ii + 1), acc)
        ELSE Where(top, Num(ii + 2), Where(mid, Num(ii + 1), acc))

RECURSIVE RainHazardLoop(_, _, _, _)
RainHazardLoop(ii, n, aux, acc) ==
    IF ii = n THEN acc
    ELSE RainHazardLoop(ii + 1, n, aux, RainHazardIteration(ii, aux, acc))

\* ComputeRainHazard, lines 211-230: the raster that is saved and returned
ComputeRainHazard(aux, lim) == RainHazardLoop(0, Len(lim), aux, ZerosLike(aux))

\* the hazard matrix with two entries exchanged
HazardRulesSlip ==
    << <<2, 2, 1>>, <<2, 3, 2>>, <<2, 4, 3>>, <<2, 5, 5>>,
       <<3, 2, 2>>, <<3, 3, 3>>, <<3, 4, 5>>, <<3, 5, 10>>,
       <<4, 2, 3>>, <<4, 3, 5>>, <<4, 4, 15>>, <<4, 5, 10>>,
       <<5, 2, 5>>, <<5, 3, 10>>, <<5, 4, 15>>, <<5, 5, 20>> >>

\* ComputeHazard, lines 269-303: <<susceptibility, rain hazard, hazard>> of each
\* mask, in the order of the code
HazardRules ==
    << <<2, 2, 1>>, <<2, 3, 2>>, <<2, 4, 3>>, <<2, 5, 5>>,
       <<3, 2, 2>>, <<3, 3, 3>>, <<3, 4, 5>>, <<3, 5, 10>>,
       <<4, 2, 3>>, <<4, 3, 5>>, <<4, 4, 10>>, <<4, 5, 15>>,
       <<5, 2, 5>>, <<5, 3, 10>>, <<5, 4, 15>>, <<5, 5, 20>> >>

\* hazard_aux = np.zeros_like(susc_da), without the not-a-number marking
HazardInitZeros(susc) == ZerosLike(susc)

\* lines 264-267: zeros, then not-a-number where the susceptibility is
HazardInit(susc) == Where(NanMask(susc), NaN, ZerosLike(susc))

RECURSIVE HazardLoop(_, _, _, _)
HazardLoop(i, susc, rain, acc) ==
    IF i > Len(HazardRules) THEN acc
    ELSE LET rule == HazardRules[i]
             mask == AndMask(EqMask(susc, Num(rule[1])), EqMask(rain, Num(rule[2])))
         IN  HazardLoop(i + 1, susc, rain, Where(mask, Num(rule[3]), acc))

\* ComputeHazard, lines 264-303: the raster that is saved and returned
ComputeHazard(susc, rain) == HazardLoop(1, susc, rain, HazardInit(susc))

\* ------------------------------------------------------------ the rasters tried
\* the tile of the worked example: a 2 x 2 susceptibility raster
ScenarioSusc == << <<Num(2), Num(3)>>, <<Num(4), Num(5)>> >>
Rows == DOMAIN ScenarioSusc
Cols == DOMAIN ScenarioSusc[1]

\* sclass of KWARGS, or no data
SuscVals == {Num(n) : n \in 1..5} \cup {NaN}
\* normalized rainfall: every whole unit up to MaxNorm tenths, one value below
\* zero, the 3.2 of the worked example, and what a division by zero or no data
\* leaves
NormVals == {Dec(t) : t \in {t \in 0..MaxNorm : t % 10 = 0}} \cup {Dec(0 - 5), Dec(32)}
            \cup {NaN, PInf, NInf}
\* what a rain hazard raster handed to ComputeHazard may hold
RainVals == {Num(n) : n \in 0..5} \cup {NaN}

Rasters(V) == [Rows -> [Cols -> V]]
\* rasters that are constant along each row
RowRasters(V) == {[r \in Rows |-> [c \in Cols |-> a[r]]] : a \in [Rows -> V]}
Uniform(val) == [r \in Rows |-> [c \in Cols |-> val]]

\* state of the batch runner while one tile's computation is the subject
BatchIdle ==
    /\ dir = FixedNames
    /\ corrupt = {}
    /\ MAX_NUMBER_OF_PROCESSES = 1
    /\ MULTIPROCESSING = FALSE
    /\ pc = "tile"
    /\ files = <<>>
    /\ idx = 0
    /\ sema = 0
    /\ processes = <<>>
    /\ dispatched = {}
    /\ discovered = [m \in Modes |-> {}]
    /\ results = [m \in Modes |-> {}]
    /\ outcome = [m \in Modes |-> "none"]

\* CompGiriHazard after the rain was normalized (line 344)
InitTile ==
    /\ BatchIdle
    /\ susc_da \in Rasters(SuscVals)
    /\ I24norm \in RowRasters(NormVals)
    /\ RainHazard_aux = <<>>
    /\ hazard_aux = <<>>
    /\ step = "classify"

\* CompGiriHazard, line 348
DoComputeRainHazard ==
    /\ step = "classify"
    /\ RainHazard_aux' = ComputeRainHazard(I24norm, I_lim)
    /\ step' = "combine"
    /\ UNCHANGED <<susc_da, I24norm, hazard_aux>>
    /\ UNCHANGED batchVars

\* CompGiriHazard, line 352
DoComputeHazard ==
    /\ step = "combine"
    /\ hazard_aux' = ComputeHazard(susc_da, RainHazard_aux)
    /\ step' = "done"
    /\ UNCHANGED <<susc_da, I24norm, RainHazard_aux>>
    /\ UNCHANGED batchVars

NextTile ==
    \/ DoComputeRainHazard
    \/ DoComputeHazard

SpecTile == InitTile /\ [][NextTile]_vars

\* ComputeHazard called on any susceptibility raster and any rain hazard raster
InitCombine ==
    /\ BatchIdle
    /\ susc_da \in Rasters(SuscVals)
    /\ I24norm = <<>>
    /\ RainHazard_aux \in RowRasters(RainVals)
    /\ hazard_aux = <<>>
    /\ step = "combine"

NextCombine == DoComputeHazard

SpecCombine == InitCombine /\ [][NextCombine]_vars
\* ====================================================================
\* Properties
\* ====================================================================
RECURSIVE ReleasesUpTo(_)
ReleasesUpTo(k) == IF k = 0 THEN 0 ELSE processes[k].releases + ReleasesUpTo(k - 1)
\* sema.release() calls made by the workers of the current run
TotalReleases == ReleasesUpTo(Len(processes))
\* sema.acquire() calls the runner has returned from in the current run
TotalAcquires == Len(processes) + (IF pc = "start" THEN 1 ELSE 0)
InMulti == MULTIPROCESSING /\ pc \in {"acquire", "start", "join", "done"}

\* C1: in parallel mode every worker that has ended released the semaphore
\* exactly once, whether CompGiriHazard succeeded or raised; hence, whenever no
\* worker is running and the runner holds no unit, the semaphore is back at
\* MAX_NUMBER_OF_PROCESSES.
C1_ReleaseOnce ==
    InMulti =>
        /\ \A k \in DOMAIN processes :
              Terminated(processes[k]) => processes[k].releases = 1
        /\ (AliveWorkers = {} /\ pc # "start") => sema = MAX_NUMBER_OF_PROCESSES

\* C2: in both modes, when the run is over every discovered tile was dispatched
\* and every readable one has its RainHazard and Hazard rasters, whichever
\* sibling tiles failed.
C2_FailureIsolated ==
    pc \in {"done", "crashed"} =>
        \A f \in discovered[MULTIPROCESSING] :
            /\ f \in dispatched
            /\ f \notin corrupt => OutputsOf(f) \subseteq results[MULTIPROCESSING]

\* C3: in parallel mode at most MAX_NUMBER_OF_PROCESSES workers are started and
\* not yet finished, and every worker was started on a unit the runner had
\* acquired while it was free: the semaphore never goes below zero and the
\* units taken from it are one per started worker, plus the one the runner
\* holds between acquire and start.
C3_BoundedWorkers ==
    InMulti =>
        /\ Cardinality(AliveWorkers) <= MAX_NUMBER_OF_PROCESSES
        /\ sema >= 0
        /\ MAX_NUMBER_OF_PROCESSES - sema + TotalReleases = TotalAcquires

\* a second worker is running, started after the first one ended
C3_Witness ==
    /\ InMulti
    /\ Len(processes) >= 2
    /\ AliveWorkers # {}

\* C4: in parallel mode multi_process_rasters has returned only if every worker
\* it started has terminated.
C4_ReturnAfterWorkers ==
    (MULTIPROCESSING /\ pc = "done") =>
        \A k \in DOMAIN processes : Terminated(processes[k])

C4_Witness ==
    /\ MULTIPROCESSING
    /\ pc = "done"
    /\ Len(processes) >= 2
    /\ \E k \in DOMAIN processes : processes[k].status = "failed"
    /\ \E k \in DOMAIN processes : processes[k].status = "exited"

\* C5: on the same Data folder the sequential and the parallel run discover the
\* same tiles and leave the same output rasters with the same content.
C5_SameTilesSameOutputs ==
    (outcome[FALSE] = "done" /\ outcome[TRUE] = "done") =>
        /\ discovered[FALSE] = discovered[TRUE]
        /\ results[FALSE] = results[TRUE]

\* C10: in parallel mode, whatever tiles fail, multi_process_rasters eventually
\* returns, every worker process being scheduled until it ends.
C10_EventuallyReturns ==
    (MULTIPROCESSING /\ pc = "init") ~> (MULTIPROCESSING /\ pc = "done")

Cells == Rows \X Cols
Classes == {Num(n) : n \in 1..5}

\* C6: ComputeRainHazard gives every finite cell one class of 1..5 and every
\* non-finite cell not-a-number, never the 0 the raster was initialized with.
C6_ClassifyTotal ==
    step \in {"combine", "done"} /\ I24norm # <<>> =>
        \A x \in Cells :
            /\ IsFinite(I24norm[x[1]][x[2]]) => RainHazard_aux[x[1]][x[2]] \in Classes
            /\ ~IsFinite(I24norm[x[1]][x[2]]) => IsNan(RainHazard_aux[x[1]][x[2]])

\* the hazard matrix as the specification states it: rows are the susceptibility
\* classes 2..5, columns the rain hazard classes 2..5
C7_Matrix ==
    << <<1, 2, 3, 5>>,
       <<2, 3, 5, 10>>,
       <<3, 5, 10, 15>>,
       <<5, 10, 15, 20>> >>

\* C7: for susceptibility class s in 2..5 and rain class r in 2..5 ComputeHazard
\* returns the entry of the hazard matrix; for s = 1 or r = 1 it returns 0.
C7_HazardMatrix ==
    step = "done" =>
        \A x \in Cells :
            LET s == susc_da[x[1]][x[2]]
                r == RainHazard_aux[x[1]][x[2]]
                h == hazard_aux[x[1]][x[2]]
            IN  /\ \A i, j \in 2..5 :
                      (s = Num(i) /\ r = Num(j)) => h = Num(C7_Matrix[i - 1][j - 1])
                /\ (s \in Classes /\ r \in Classes /\ (s = Num(1) \/ r = Num(1)))
                      => h = Num(0)

\* one raster holds a cell of the matrix's last row and a cell of class 1
C7_Witness ==
    /\ step = "done"
    /\ susc_da[1][1] = Num(5) /\ RainHazard_aux[1][1] = Num(4) /\ hazard_aux[1][1] = Num(15)
    /\ susc_da[1][2] = Num(4) /\ RainHazard_aux[1][2] = Num(4) /\ hazard_aux[1][2] = Num(10)
    /\ susc_da[2][1] = Num(1) /\ RainHazard_aux[2][1] = Num(5) /\ hazard_aux[2][1] = Num(0)
    /\ susc_da[2][2] = Num(3) /\ RainHazard_aux[2][2] = Num(5)

\* C8: ComputeHazard returns not-a-number wherever the susceptibility is
\* not-a-number, whatever the rain hazard cell holds.
C8_MissingSusceptibility ==
    step = "done" =>
        \A x \in Cells :
            IsNan(susc_da[x[1]][x[2]]) => IsNan(hazard_aux[x[1]][x[2]])

\* missing susceptibility met a rain class and a missing rain hazard
C8_Witness ==
    /\ step = "done"
    /\ IsNan(susc_da[1][1]) /\ RainHazard_aux[1][1] = Num(5) /\ IsNan(hazard_aux[1][1])
    /\ IsNan(susc_da[2][1]) /\ IsNan(RainHazard_aux[2][1]) /\ IsNan(hazard_aux[2][1])
    /\ susc_da[2][2] = Num(5) /\ hazard_aux[2][2] = Num(0)

C9_Case ==
    /\ step = "done"
    /\ susc_da = ScenarioSusc
    /\ I24norm = Uniform(Dec(32))

\* C9 as stated: susceptibility [[2,3],[4,5]] with normalized rainfall 3.2 in
\* every cell gets rain class 4 everywhere and the hazard raster [[3,5],[10,15]].
C9_ScenarioClass4 ==
    C9_Case =>
        /\ RainHazard_aux = Uniform(Num(4))
        /\ hazard_aux = << <<Num(3), Num(5)>>, <<Num(10), Num(15)>> >>

\* C9 as the code has it: susceptibility [[2,3],[4,5]] with normalized rainfall
\* 3.2 in every cell gets rain class 5 everywhere (3.2 exceeds the index 3) and
\* the hazard raster [[5,10],[15,20]].
C9_ScenarioClass5 ==
    C9_Case =>
        /\ RainHazard_aux = Uniform(Num(5))
        /\ hazard_aux = << <<Num(5), Num(10)>>, <<Num(15), Num(20)>> >>

C9_Witness == C9_Case /\ hazard_aux[2][2] = Num(20)
====
